---------------------------- MODULE Spec2Model ----------------------------
(***************************************************************************)
(* A model of get_microsoft_patches.py: the catalog search walk            *)
(* (find_updates), the per-update detail resolver (class WindowsUpdate),   *)
(* the catalog aggregation (find_microsoft_catelogue_updates), the         *)
(* download-center fallback and the command line entry point.              *)
(*                                                                         *)
(* Text is a sequence of one-character strings (an opaque literal is a     *)
(* one-token sequence).  A Python value is a tagged record [t, v]:         *)
(*   t = "none" (None), "str", "list" (of texts), "ints", "bool",          *)
(*   "files" (a list of download descriptors), "size".                     *)
(***************************************************************************)
EXTENDS Integers, Sequences, FiniteSets, TLC

(***************************************************************************)
(* Bounds of the model.                                                    *)
(***************************************************************************)
MaxCalls == 3
MaxPages == 2
MaxRows == 2
MaxLinks == 2
MaxUpdates == 2

(***************************************************************************)
(* Python values.                                                          *)
(***************************************************************************)
PyNone == [t |-> "none", v |-> <<>>]
PyStr(s) == [t |-> "str", v |-> s]
PyList(l) == [t |-> "list", v |-> l]
PyInts(l) == [t |-> "ints", v |-> l]
PyBool(b) == [t |-> "bool", v |-> b]

\* Python's ==: values of different types are unequal.
PyEq(a, b) == a.t = b.t /\ a.v = b.v

\* Python's truthiness: None, "", [] and False are false.
Truthy(a) ==
    CASE a.t = "none" -> FALSE
      [] a.t = "bool" -> a.v
      [] OTHER -> a.v # <<>>

\* The outcome of evaluating an expression: a value, or an exception.
Ret(val) == [raised |-> FALSE, val |-> val]
Raise == [raised |-> TRUE, val |-> PyNone]

(***************************************************************************)
(* str methods, on sequences of characters.                                *)
(***************************************************************************)
IsSpace(c) == c \in {" ", "\n", "\r", "\t"}

IsDigit(c) == c \in {"0", "1", "2", "3", "4", "5", "6", "7", "8", "9"}

DigitVal(c) ==
    CASE c = "0" -> 0 [] c = "1" -> 1 [] c = "2" -> 2 [] c = "3" -> 3
      [] c = "4" -> 4 [] c = "5" -> 5 [] c = "6" -> 6 [] c = "7" -> 7
      [] c = "8" -> 8 [] c = "9" -> 9

LowerChar(c) ==
    CASE c = "A" -> "a" [] c = "B" -> "b" [] c = "K" -> "k" [] c = "N" -> "n"
      [] c = "X" -> "x" [] OTHER -> c

SameCase(s) == s

Lower(s) == [i \in 1..Len(s) |-> LowerChar(s[i])]

RECURSIVE LStrip(_)
LStrip(s) == IF s # <<>> /\ IsSpace(Head(s)) THEN LStrip(Tail(s)) ELSE s

RECURSIVE RStrip(_)
RStrip(s) ==
    IF s # <<>> /\ IsSpace(s[Len(s)]) THEN RStrip(SubSeq(s, 1, Len(s) - 1)) ELSE s

Strip(s) == RStrip(LStrip(s))

StartsWith(s, p) == Len(p) <= Len(s) /\ SubSeq(s, 1, Len(p)) = p

\* str.find: the 1-based index of the first occurrence of p in s, 0 if none.
RECURSIVE FindFrom(_, _, _)
FindFrom(s, p, i) ==
    IF i + Len(p) - 1 > Len(s) THEN 0
    ELSE IF SubSeq(s, i, i + Len(p) - 1) = p THEN i
    ELSE FindFrom(s, p, i + 1)

Find(s, p) == FindFrom(s, p, 1)

\* p in s
Contains(s, p) == Find(s, p) # 0

\* s.replace(p, r), p not empty
RECURSIVE Replace(_, _, _)
Replace(s, p, r) ==
    IF s = <<>> THEN <<>>
    ELSE IF StartsWith(s, p) THEN r \o Replace(SubSeq(s, Len(p) + 1, Len(s)), p, r)
    ELSE <<Head(s)>> \o Replace(Tail(s), p, r)

\* s.split(c) for a one-character separator: always at least one piece.
RECURSIVE Split(_, _)
Split(s, c) ==
    LET i == Find(s, <<c>>)
    IN  IF i = 0 THEN <<s>>
        ELSE <<SubSeq(s, 1, i - 1)>> \o Split(SubSeq(s, i + 1, Len(s)), c)

\* int(s) of a stripped text: digits only; anything else is a ValueError.
RECURSIVE DigitsValue(_, _)
DigitsValue(s, acc) ==
    IF s = <<>> THEN acc ELSE DigitsValue(Tail(s), 10 * acc + DigitVal(Head(s)))

IsNumeric(s) == s # <<>> /\ \A i \in 1..Len(s) : IsDigit(s[i])


(***************************************************************************)
(* The detail page of one update (ScopedViewInline.aspx).  For every       *)
(* element the properties look up by id the page says whether the element  *)
(* is there (m) and what follows it (sibs): for a ..._Separator marker the *)
(* texts of its next siblings in order, for a container its own text (no   *)
(* entry: an empty element).                                               *)
(***************************************************************************)
Fields ==
    {"arch", "lang", "supersedes", "desc", "uninstall", "connectivity",
     "userInput", "reboot", "kb", "moreInfo", "msrc", "severity", "supportUrl"}

Elem(m, sibs) == [m |-> m, sibs |-> sibs]

Missing == Elem(FALSE, <<>>)

Bare == Elem(TRUE, <<>>)

NA == <<"n", "/", "a">>

NoneText == <<"N", "o", "n", "e">>

TitleA == <<"A">>

TitleB == <<"B">>

FullDoc ==
    [arch |-> Elem(TRUE, << <<" ", "x", "6", "4", "\n">> >>),
     lang |-> Elem(TRUE, << <<" ", "all", " ">> >>),
     supersedes |-> Elem(TRUE, << <<"\n", " ", "B", "\r", "\n">> >>),
     desc |-> Elem(TRUE, << <<"Install this update">> >>),
     uninstall |-> Elem(TRUE, << <<"This update ", "can be removed", ".">> >>),
     connectivity |-> Elem(TRUE, << <<"No">> >>),
     userInput |-> Elem(TRUE, << <<"No">> >>),
     reboot |-> Elem(TRUE, << <<"Can request restart">> >>),
     kb |-> Elem(TRUE, << <<" ", "4", "5", " ">> >>),
     moreInfo |-> Elem(TRUE, << <<"\n">>, <<"support.microsoft.com/help/45">> >>),
     msrc |-> Elem(TRUE, << <<"\n">>, <<"MS17-010">> >>),
     severity |-> Elem(TRUE, << <<"Critical">> >>),
     supportUrl |-> Elem(TRUE, << <<"\n">>, <<"support.microsoft.com">> >>)]

\* What else the element of a field may look like on a page.
Variants(f) ==
    {Missing, Bare} \cup
    CASE f = "supersedes" ->
            {Elem(TRUE, << <<"A">> >>),
             Elem(TRUE, << <<"A", "\n", "\r", "\n", "B">> >>),
             Elem(TRUE, << <<"A", "\n", " ", "\n", "B", "\r">> >>),
             Elem(TRUE, << <<" ", "\n">> >>)}
      [] f = "kb" ->
            {Elem(TRUE, << NA >>), Elem(TRUE, << <<" ", "N", "/", "A">> >>),
             Elem(TRUE, << <<"a", "b", "c">> >>), Elem(TRUE, << <<" ">> >>),
             Elem(TRUE, << <<"4", "5">>, <<"7">> >>),
             Elem(TRUE, << <<"4", "5">>, NA >>)}
      [] f = "msrc" ->
            {Elem(TRUE, << NA >>), Elem(TRUE, << <<" ", "n", "/", "a">> >>),
             Elem(TRUE, << <<"x">> >>)}
      [] f = "uninstall" -> {Elem(TRUE, << <<"This update ", "cannot be removed", ".">> >>)}
      [] f \in {"moreInfo", "supportUrl"} -> {Elem(TRUE, << <<"\n">> >>)}
      [] OTHER -> {}

EmptyDoc == [f \in Fields |-> Missing]

\* The pages of the model: the full page, the page with no element at all, and
\* every page that differs from the full one in one element.
Docs ==
    {FullDoc, EmptyDoc} \cup
    UNION {{[FullDoc EXCEPT ![f] = e] : e \in Variants(f)} : f \in Fields}

\* element.get_text()
GetText(e) == IF e.sibs = <<>> THEN <<>> ELSE e.sibs[1]

(***************************************************************************)
(* class WindowsUpdate: what each property computes from the detail page.  *)
(* A None operand of an attribute access or of `in` raises.                *)
(***************************************************************************)
\* raw.next_sibling.strip()
NextSiblingStrip(e) ==
    IF ~e.m \/ e.sibs = <<>> THEN Raise ELSE Ret(PyStr(Strip(e.sibs[1])))

architecture(d) == NextSiblingStrip(d.arch)

languages(d) == NextSiblingStrip(d.lang)

superseeds(d) ==
    IF d.supersedes.m
    THEN LET superseeds_text == Strip(GetText(d.supersedes))
             joined == Replace(superseeds_text, <<"\n", "\r", "\n">>, <<" ">>)
             pieces == Split(joined, "\n")
             stripped == [i \in 1..Len(pieces) |-> Strip(pieces[i])]
             kept == SelectSeq(stripped, LAMBDA x : x # <<>>)
             superseeds_list ==
                 IF superseeds_text = <<>> THEN <<>>
                 ELSE [i \in 1..Len(kept) |-> Replace(kept[i], <<"\r">>, <<>>)]
         IN  Ret(IF superseeds_list # <<>>
                 THEN PyList(superseeds_list)
                 ELSE PyStr(IF superseeds_text = <<>> THEN <<>> ELSE joined))
    ELSE Ret(PyStr(NoneText))

\* details.find(id=...).get_text()
ElementText(e) == IF ~e.m THEN Raise ELSE Ret(PyStr(GetText(e)))

descriptions(d) == ElementText(d.desc)

is_installable(d) ==
    IF ~d.uninstall.m \/ d.uninstall.sibs = <<>> THEN Raise
    ELSE Ret(PyBool(Contains(d.uninstall.sibs[1], <<"can be removed">>)))

requires_connectivity(d) == ElementText(d.connectivity)

requires_user_input(d) == ElementText(d.userInput)

requires_restart(d) == ElementText(d.reboot)

kb_numbers(d) ==
    LET e == d.kb
        wanted == SelectSeq(e.sibs, LAMBDA n : Lower(Strip(n)) # NA)
    IN  IF ~e.m THEN Ret(PyNone)
        ELSE IF e.sibs = <<>> THEN Raise
        ELSE IF Strip(e.sibs[1]) = <<>> THEN Ret(PyNone)
        ELSE IF \E i \in 1..Len(wanted) : ~IsNumeric(Strip(wanted[i])) THEN Raise
        ELSE Ret(PyInts([i \in 1..Len(wanted) |-> DigitsValue(Strip(wanted[i]), 0)]))

\* list(raw_info.next_siblings)[1].get_text().strip()
SecondSiblingText(e) ==
    IF ~e.m \/ Len(e.sibs) < 2 THEN Raise ELSE Ret(PyStr(Strip(e.sibs[2])))

more_information(d) == SecondSiblingText(d.moreInfo)

support_url(d) == SecondSiblingText(d.supportUrl)

msrc_number(d) ==
    LET e == d.msrc
    IN  IF ~e.m THEN Ret(PyNone)
        ELSE IF e.sibs = <<>> THEN Raise
        ELSE IF ~Contains(e.sibs[1], NA) /\ Len(e.sibs[1]) > 1
             THEN Ret(PyStr(Strip(e.sibs[Len(e.sibs)])))
        ELSE Ret(PyNone)

msrc_severity(d) ==
    IF d.severity.m THEN Ret(PyStr(Strip(GetText(d.severity)))) ELSE Ret(PyNone)


(***************************************************************************)
(* The download dialog response (DownloadDialog.aspx): the matches of      *)
(* DOWNLOAD_PATTERN in order (slot, url) and the "[slot].name = 'value';"   *)
(* assignments of the body in order.                                       *)
(***************************************************************************)
Host == "https://catalog.s.download.windowsupdate.com"

Url1 == <<Host, "/", "c", "/", "kb45-x64.msu">>

Url2 == <<Host, "/", "d", "/", "kb45-x86.msu">>

Assign(slot, name, value) == [slot |-> slot, name |-> name, value |-> value]

DownloadBodies ==
    {[urls |-> <<>>, props |-> <<>>],
     [urls |-> << <<"0", Url1>> >>,
      props |-> <<Assign("0", "digest", <<"abc=">>), Assign("0", "fileName", <<"kb45-x64.msu">>)>>],
     [urls |-> << <<"0", Url1>>, <<"1", Url2>> >>,
      props |-> <<Assign("1", "fileName", <<"kb45-x86.msu">>), Assign("0", "digest", <<"abc=">>)>>]}

\* re.search of "[slot].name = '...';" in the body: the first match, or None.
RECURSIVE SearchAssign(_, _, _)
SearchAssign(props, slot, name) ==
    IF props = <<>> THEN PyNone
    ELSE IF Head(props).slot = slot /\ Head(props).name = name
         THEN PyStr(Head(props).value)
    ELSE SearchAssign(Tail(props), slot, name)

WUDownloadInfo(download_id, url, raw) ==
    [url |-> url,
     digest |-> SearchAssign(raw.props, download_id, "digest"),
     architectures |-> SearchAssign(raw.props, download_id, "architectures"),
     languages |-> SearchAssign(raw.props, download_id, "languages"),
     long_languages |-> SearchAssign(raw.props, download_id, "longLanguages"),
     file_name |-> SearchAssign(raw.props, download_id, "fileName")]

\* The list get_download_urls builds from a response with at least one link.
DownloadInfos(raw) ==
    [t |-> "links",
     v |-> [i \in 1..Len(raw.urls) |-> WUDownloadInfo(raw.urls[i][1], raw.urls[i][2], raw)]]

(***************************************************************************)
(* State.                                                                  *)
(*   wu          the attributes of one WindowsUpdate object                *)
(*   net         the requests issued so far, per endpoint                  *)
(*   lastCall    the last property access or method call and its outcome   *)
(*   nCalls      the number of accesses and calls so far                   *)
(*   dlFirst     the first call of get_download_urls and its outcome       *)
(*   dlCached    the first call of get_download_urls that returned a list, *)
(*               with the number of POSTs issued up to its return          *)
(***************************************************************************)
VARIABLES wu, net, lastCall, nCalls, dlFirst, dlCached

wuVars == <<wu, net, lastCall, nCalls, dlFirst, dlCached>>

(***************************************************************************)
(* State of one run of the command line (__main__).                        *)
(*   argv        the arguments: their number, the search string, the path  *)
(*   fs          the files: path -> absent, an older file, or written JSON *)
(*   pc          where the run is                                          *)
(*   exitCode    -1 while running, then the exit code                      *)
(*   walk        the find_updates generator                                *)
(*   cat         find_microsoft_catelogue_updates: the records built so    *)
(*               far, super_seeds_list, what it returned                   *)
(*   fb          the fallback: patch_links, the next link, update_list     *)
(*   hist        what has happened: calls of the catalog path, of          *)
(*               get_patch_link and of the page scrape, the number of      *)
(*               updates the walk of the catalog path yielded, the         *)
(*               exception it caught, the rows it emitted and the pages    *)
(*               of rows it fetched                                        *)
(***************************************************************************)
VARIABLES argv, fs, pc, exitCode, walk, cat, fb, hist

cliVars == <<argv, fs, pc, exitCode, walk, cat, fb, hist>>

vars == <<wuVars, cliVars>>

Attrs ==
    {"_architecture", "_description", "_download_urls", "_kb_numbers",
     "_more_information", "_msrc_number", "_msrc_severity", "_support_url",
     "_is_installable", "_languages", "_requires_connectivity",
     "_requires_user_input", "_requires_restart", "_superseeds"}

NoDetails == [fetched |-> FALSE, doc |-> EmptyDoc]

\* WindowsUpdate.__init__: every cached attribute starts as None.
NewWindowsUpdate == [a \in Attrs \cup {"_details"} |-> IF a = "_details" THEN NoDetails ELSE PyNone]

NoRequests == [detail |-> 0, download |-> 0]

NoCall == [op |-> "", raised |-> FALSE, val |-> PyNone]

WUInit ==
    /\ wu = NewWindowsUpdate
    /\ net = NoRequests
    /\ lastCall = NoCall
    /\ nCalls = 0
    /\ dlFirst = [count |-> 0, raised |-> FALSE, val |-> PyNone]
    /\ dlCached = [called |-> FALSE, val |-> PyNone, posts |-> 0]

\* get_details, `if not self._details`: a parsed document is always true.
AlwaysFetch(w) == TRUE
NeedsFetch(w) == ~w["_details"].fetched

\* The documents get_details may return: the cached one, or the response.
DetailResponses(w) == IF NeedsFetch(w) THEN Docs ELSE {w["_details"].doc}

\* get_details with `page` the document it returns: the object and the
\* request count after it.
get_details_wu(w, page) == [w EXCEPT !["_details"] = [fetched |-> TRUE, doc |-> page]]

get_details_net(w, n) == IF NeedsFetch(w) THEN [n EXCEPT !.detail = @ + 1] ELSE n

Called(op, r) ==
    /\ lastCall' = [op |-> op, raised |-> r.raised, val |-> r.val]
    /\ nCalls' = nCalls + 1

\* A property: return the cached attribute on a hit; otherwise get the details,
\* compute the value, store it in the attribute and return it.
Property(op, attr, hit, Compute(_)) ==
    /\ nCalls < MaxCalls
    /\ UNCHANGED <<dlFirst, dlCached>>
    /\ UNCHANGED cliVars
    /\ IF hit
       THEN /\ UNCHANGED <<wu, net>>
            /\ Called(op, Ret(wu[attr]))
       ELSE \E page \in DetailResponses(wu) :
              LET r == Compute(page)
                  w == get_details_wu(wu, page)
              IN  /\ wu' = IF r.raised THEN w ELSE [w EXCEPT ![attr] = r.val]
                  /\ net' = get_details_net(wu, net)
                  /\ Called(op, r)

IsNone(a) == a.t = "none"

Architecture == Property("architecture", "_architecture", Truthy(wu["_architecture"]), architecture)

Languages == Property("languages", "_languages", FALSE, languages)

Superseeds == Property("superseeds", "_superseeds", FALSE, superseeds)

Descriptions == Property("descriptions", "_description", Truthy(wu["_description"]), descriptions)

IsInstallable == Property("is_installable", "_is_installable", ~IsNone(wu["_is_installable"]), is_installable)

RequiresConnectivity ==
    Property("requires_connectivity", "_requires_connectivity",
             ~IsNone(wu["_requires_connectivity"]), requires_connectivity)

RequiresUserInput ==
    Property("requires_user_input", "_requires_user_input",
             ~IsNone(wu["_requires_user_input"]), requires_user_input)

RequiresRestart ==
    Property("requires_restart", "_requires_restart",
             ~IsNone(wu["_requires_restart"]), requires_restart)

KbNumbers == Property("kb_numbers", "_kb_numbers", ~IsNone(wu["_kb_numbers"]), kb_numbers)

MoreInformation ==
    Property("more_information", "_more_information",
             ~IsNone(wu["_more_information"]), more_information)

MsrcNumber == Property("msrc_number", "_msrc_number", ~IsNone(wu["_msrc_number"]), msrc_number)

MsrcSeverity == Property("msrc_severity", "_msrc_severity", ~IsNone(wu["_msrc_severity"]), msrc_severity)

SupportUrl == Property("support_url", "_support_url", ~IsNone(wu["_support_url"]), support_url)

\* A direct call of get_details().
GetDetails ==
    /\ nCalls < MaxCalls
    /\ \E page \in DetailResponses(wu) :
         /\ wu' = get_details_wu(wu, page)
         /\ net' = get_details_net(wu, net)
         /\ Called("get_details", Ret(PyNone))
         /\ UNCHANGED <<dlFirst, dlCached>>
         /\ UNCHANGED cliVars

\* get_download_urls, `if self._download_urls is None`.
AlwaysPost(w) == TRUE
NeedsPost(w) == IsNone(w["_download_urls"])

GetDownloadUrls ==
    /\ nCalls < MaxCalls
    /\ IF NeedsPost(wu)
       THEN \E raw \in DownloadBodies :
              /\ net' = [net EXCEPT !.download = @ + 1]
              /\ IF Len(raw.urls) = 0
                 THEN /\ UNCHANGED wu
                      /\ Called("get_download_urls", Raise)
                 ELSE /\ wu' = [wu EXCEPT !["_download_urls"] = DownloadInfos(raw)]
                      /\ Called("get_download_urls", Ret(DownloadInfos(raw)))
       ELSE /\ UNCHANGED <<wu, net>>
            /\ Called("get_download_urls", Ret(wu["_download_urls"]))
    /\ dlFirst' = IF dlFirst.count > 0 THEN [dlFirst EXCEPT !.count = @ + 1]
                  ELSE [count |-> 1, raised |-> lastCall'.raised, val |-> lastCall'.val]
    /\ dlCached' = IF dlCached.called \/ lastCall'.raised THEN dlCached
                   ELSE [called |-> TRUE, val |-> lastCall'.val, posts |-> net'.download]
    /\ UNCHANGED cliVars

WUNext ==
    \/ Architecture
    \/ Languages
    \/ Superseeds
    \/ Descriptions
    \/ IsInstallable
    \/ RequiresConnectivity
    \/ RequiresUserInput
    \/ RequiresRestart
    \/ KbNumbers
    \/ MoreInformation
    \/ MsrcNumber
    \/ MsrcSeverity
    \/ SupportUrl
    \/ GetDetails
    \/ GetDownloadUrls



(***************************************************************************)
(* find_updates: the generator that walks the search result pages.         *)
(*                                                                         *)
(* A response to the search request: whether the request succeeded (ok),   *)
(* whether the page holds the results container                            *)
(* ctl00_catalogBody_updateMatches, the number of <tr> in it (trs, the     *)
(* first of them the header row) and whether it holds the control          *)
(* ctl00_catalogBody_nextPage.  The cells of a row are read when the row   *)
(* is turned into a WindowsUpdate.                                         *)
(***************************************************************************)
Titles == {TitleA, TitleB, NoneText}

\* A data row: whether WindowsUpdate.__init__ can parse it, and its title.
Row(ok, title) == [ok |-> ok, title |-> title, id |-> <<>>]

\* str(n) of a number below ten.
DigitOf(n) == CHOOSE c \in {"0", "1", "2", "3", "4", "5", "6", "7", "8", "9"} : DigitVal(c) = n

\* The id in the last cell of the row at place row of the page that answers
\* request number page: every row the server lists has an id of its own.
RowId(page, row) == <<"7c9e6679-7425-40de-944b-e07fc1f90a", DigitOf(page), DigitOf(row)>>

RowKinds == {Row(TRUE, t) : t \in Titles} \cup {Row(FALSE, <<>>)}

Min(a, b) == IF a < b THEN a ELSE b

\* The anti-forgery fields of a result page that build_action_data copies.
AntiForgery == {"__EVENTARGUMENT", "__EVENTVALIDATION", "__VIEWSTATE", "__VIEWSTATEGENERATOR"}

\* The columns of the header row and the id of the link of each.
Columns == {"Title", "Last Updated"}

HeaderLinkId(column) ==
    IF column = "Title"
    THEN <<"ctl00", "_", "catalogBody", "_", "updateMatches", "_", "ctl02", "_", "titleHeaderLink">>
    ELSE <<"ctl00", "_", "catalogBody", "_", "updateMatches", "_", "ctl02", "_", "dateHeaderLink">>

\* event_targets[sort]: l.attrs['id'].replace('_', '$') of the column's link.
EventTarget(column) == Replace(HeaderLinkId(column), <<"_">>, <<"$">>)

NextPageTarget == <<"ctl00", "$", "catalogBody", "$", "nextPageLinkText">>

\* A response to a search request: whether it arrived, whether it has the
\* ctl00_catalogBody_updateMatches container, the number of its tr elements
\* (header row included), whether it has the ctl00_catalogBody_nextPage control,
\* the anti-forgery fields it has and the columns its header row links.
SearchResponse(ok, container, trs, nextPage, fields, headers) ==
    [ok |-> ok, container |-> container, trs |-> trs, nextPage |-> nextPage,
     fields |-> fields, headers |-> headers]

\* The responses the server may give to the next search request of walk w, with
\* anti-forgery fields from fieldSets and header rows from headerSets: the last
\* page the bounds allow says that there are no more pages.
SearchResponses(w, fieldSets, headerSets) ==
    {SearchResponse(FALSE, FALSE, 0, FALSE, {}, {}),
     SearchResponse(TRUE, FALSE, 0, FALSE, {}, {})} \cup
    {SearchResponse(TRUE, TRUE, trs, np, fields, headers) :
        trs \in 0..(1 + Min(MaxRows, MaxUpdates - w.yielded)),
        np \in IF w.pages + 1 >= MaxPages THEN {TRUE} ELSE BOOLEAN,
        fields \in fieldSets, headers \in headerSets}

\* The data of a request: none for the first request of a walk.
NoData == [target |-> <<>>, form |-> <<>>]

\* build_action_data(action) on the page whose anti-forgery fields are form.
build_action_data(form, action) == [target |-> action, form |-> form]

\* find_updates(search, all_updates, sort, sort_reverse) before its first step.
NewWalk(all_updates, sort, sort_reverse) ==
    [st |-> "fetch", all_updates |-> all_updates, sort |-> sort,
     sort_reverse |-> sort_reverse, data |-> NoData, log |-> <<>>,
     asked |-> [all_updates |-> all_updates, sort |-> sort, sort_reverse |-> sort_reverse],
     trs |-> 0, row |-> 0, nextPage |-> FALSE, form |-> <<>>, cur |-> Row(FALSE, <<>>),
     requests |-> 0, posts |-> 0, pages |-> 0, fetched |-> <<>>,
     yielded |-> 0, emitted |-> <<>>,
     err |-> "", outcome |-> "running"]

NoWalk == [NewWalk(FALSE, "", FALSE) EXCEPT !.st = "idle"]

\* `except Exception`: the exception is printed and the generator returns, so
\* the caller's loop ends as it does after the last update.
Reraised(w, err) == [w EXCEPT !.st = "done", !.err = err, !.outcome = "raised"]
Caught(w, err) == [w EXCEPT !.st = "done", !.err = err, !.outcome = "exhausted"]

\* `if sort:` on the page fetched.
IgnoreSort(w) == FALSE
SortRequested(w) == w.sort # ""

\* The search request of a call of find_updates and the parse of its response:
\* a GET without data, a POST with it.  With a sort column the header click is
\* posted by a recursive call that sorts once more only for sort_reverse, and
\* the rows of this page are not walked.
FetchPage(w, resp) ==
    LET w1 == [w EXCEPT !.requests = @ + 1, !.log = Append(@, w.data),
                        !.posts = IF w.data.target = <<>> THEN @ ELSE @ + 1]
        form == [f \in resp.fields |-> w1.requests]
    IN  IF ~resp.ok THEN Caught(w1, "Error")
        ELSE IF ~resp.container THEN Caught(w1, "NotFound")
        ELSE IF resp.trs = 0 THEN Caught(w1, "Error")
        ELSE IF SortRequested(w)
        THEN IF w.sort \notin resp.headers THEN Caught(w1, "Error")
             ELSE [w1 EXCEPT !.st = "fetch", !.form = form,
                             !.data = build_action_data(form, EventTarget(w.sort)),
                             !.sort = IF w.sort_reverse THEN w.sort ELSE "",
                             !.sort_reverse = FALSE]
        ELSE [w1 EXCEPT !.st = "rows", !.trs = resp.trs, !.row = 1, !.form = form,
                        !.nextPage = resp.nextPage, !.pages = @ + 1,
                        !.fetched = Append(@, <<w1.requests, resp.trs - 1>>)]

\* `yield WindowsUpdate(u)` for the next data row.
YieldRow(w, r) ==
    IF ~r.ok THEN Caught(w, "Error")
    ELSE [w EXCEPT !.st = "yielded", !.cur = [r EXCEPT !.id = RowId(w.requests, w.row)],
                   !.row = @ + 1, !.yielded = @ + 1,
                   !.emitted = Append(@, <<w.requests, w.row>>)]

\* `if not last_page and all_updates`
MorePagesIfControl(w) == w.nextPage /\ w.all_updates
MorePages(w) == ~w.nextPage /\ w.all_updates

\* After the rows: the next page is requested when the page has no
\* ctl00_catalogBody_nextPage control and all_updates is set.
PaginateToEnd(w) == [w EXCEPT !.st = "done", !.outcome = "exhausted"]
Paginate(w) ==
    IF MorePages(w)
    THEN [w EXCEPT !.st = "fetch", !.data = build_action_data(w.form, NextPageTarget),
                   !.all_updates = TRUE, !.sort = "", !.sort_reverse = FALSE]
    ELSE [w EXCEPT !.st = "done", !.outcome = "exhausted"]

(***************************************************************************)
(* find_microsoft_catelogue_updates.                                       *)
(***************************************************************************)
\* WindowsUpdate.__init__ for a row that parses: the cells of the row.
WindowsUpdate(r) ==
    [title |-> r.title, id |-> r.id,
     version |-> <<"n/a">>, last_updated |-> <<"2020-01-02 00:00:00">>,
     classification |-> <<"Security Updates">>, products |-> << <<"W", "i", "n", "1", "0">> >>,
     size |-> <<"1.2 MB">>]

get_download_urls(raw) == IF Len(raw.urls) = 0 THEN Raise ELSE Ret(DownloadInfos(raw))

\* urlparse(url).path.split('/')[-1]
UrlFileName(url) == LET parts == Split(Tail(url), "/") IN parts[Len(parts)]

\* The record built for one update from its row, its detail page and its
\* download dialog response; an exception of any property ends the build.
update_details(u, d, raw) ==
    LET dl == get_download_urls(raw)
        parts == <<kb_numbers(d), languages(d), superseeds(d), msrc_number(d),
                   msrc_severity(d), architecture(d), is_installable(d),
                   requires_connectivity(d), requires_user_input(d),
                   requires_restart(d), more_information(d), descriptions(d),
                   support_url(d), dl>>
    IN  IF \E i \in 1..Len(parts) : parts[i].raised THEN Raise
        ELSE Ret([kb |-> kb_numbers(d).val,
                  title |-> PyStr(u.title),
                  update_id |-> PyStr(u.id),
                  kb_number |-> kb_numbers(d).val,
                  version |-> PyStr(u.version),
                  last_updated |-> PyStr(u.last_updated),
                  classification |-> PyStr(u.classification),
                  languages |-> languages(d).val,
                  superseeds |-> superseeds(d).val,
                  msrc_number |-> msrc_number(d).val,
                  msrc_severity |-> msrc_severity(d).val,
                  products_applicable |-> PyStr(Lower(u.products[1])),
                  architecture |-> architecture(d).val,
                  uninstallable |-> is_installable(d).val,
                  requires_connectivity |-> requires_connectivity(d).val,
                  requires_user_input |-> requires_user_input(d).val,
                  requires_restart |-> requires_restart(d).val,
                  update_size |-> PyStr(u.size),
                  more_info |-> more_information(d).val,
                  description |-> descriptions(d).val,
                  support_url |-> support_url(d).val,
                  download_urls |->
                      [t |-> "dicts",
                       v |-> [i \in 1..Len(dl.val.v) |->
                                [file_name |-> UrlFileName(dl.val.v[i].url),
                                 download_link |-> dl.val.v[i].url]]]])

\* super_seeds_list after the record: the whole superseeds value is appended
\* as one element when the title and the value are true.
AppendSuperSeeds(list, rec) ==
    IF Truthy(rec.title) /\ Truthy(rec.superseeds) THEN Append(list, rec.superseeds) ELSE list

\* The updates kept: those whose title equals no element of super_seeds_list.
newest_first(updates, super_seeds_list) ==
    LET kept == SelectSeq(updates,
                          LAMBDA update : ~\E i \in 1..Len(super_seeds_list) :
                                              PyEq(update.title, super_seeds_list[i]))
    IN  [i \in 1..Len(kept) |-> kept[Len(kept) + 1 - i]]
applicable_updates(updates, super_seeds_list) ==
    SelectSeq(updates,
              LAMBDA update : ~\E i \in 1..Len(super_seeds_list) :
                                  PyEq(update.title, super_seeds_list[i]))

\* What find_microsoft_catelogue_updates returns once the walk has ended.
CatalogResult(updates, super_seeds_list) ==
    IF updates # <<>>
    THEN [t |-> "records", v |-> applicable_updates(updates, super_seeds_list)]
    ELSE PyNone

NewCatalog == [updates |-> <<>>, super_seeds_list |-> <<>>,
               returned |-> FALSE, result |-> PyNone, raised |-> FALSE]

(***************************************************************************)
(* The download-center fallback.                                           *)
(***************************************************************************)
DetailsHref(id) == <<"https://www.microsoft.com/en-us", "/download/details.aspx?", id>>

\* The href of an anchor: None (no href), a link elsewhere, a download page.
HrefKinds ==
    {PyNone, PyStr(<<"https://support.microsoft.com/contact">>),
     PyStr(DetailsHref("id=1")), PyStr(DetailsHref("id=2"))}

SeqsUpTo(S, n) == UNION {[1..k -> S] : k \in 0..n}

\* The support page: whether the request succeeded, whether the page has a
\* canonical link, and the hrefs of its anchors in order.
SupportPages ==
    {[ok |-> FALSE, canonical |-> FALSE, hrefs |-> <<>>]} \cup
    {[ok |-> TRUE, canonical |-> c, hrefs |-> h] :
        c \in BOOLEAN, h \in SeqsUpTo(HrefKinds, MaxLinks)}

\* get_patch_link: the URL it requests.
SupportUrlOf(kb) == <<"https://support.microsoft.com/help/">> \o Replace(Lower(kb), <<"k", "b">>, <<>>)

\* get_patch_link: the links it returns for the page it got.
get_patch_link(page) ==
    LET all_links == SelectSeq(page.hrefs, LAMBDA h : ~IsNone(h))
        wanted == SelectSeq(all_links, LAMBDA h : Contains(h.v, <<"/download/details.aspx?">>))
    IN  IF ~page.ok \/ ~page.canonical \/ page.hrefs = <<>> THEN <<>>
        ELSE [i \in 1..Len(wanted) |-> wanted[i].v]

File(name, size) ==
    [name |-> name, url |-> <<"https://download.microsoft.com/">> \o name,
     size |-> size, version |-> PyStr(<<"1.0">>), datePublished |-> PyStr(<<"1/2/2020">>)]

GiB == 1073741824

MiB == 1048576

File64 == File(<<"k", "b", "4", "5", "-", "x", "6", "4">>, PyStr(<<"1", "0", "4", "8", "5", "7", "6">>))

File86 == File(<<"K", "B", "7", "-", "x", "8", "6">>,
               PyStr(<<"1", "0", "7", "3", "7", "4", "1", "8", "2", "4">>))

FilePlain == File(<<"r", "e", "a", "d", "m", "e">>, PyNone)

Found(v) == [present |-> TRUE, v |-> v]

NotFound == [present |-> FALSE, v |-> <<>>]

\* A download-center page: the request's success, the canonical link, the
\* window.__DLCDetails__ script and the literals found in it.
DownloadPage(ok, canonical, dlc, files, title, description, os) ==
    [ok |-> ok, canonical |-> canonical, dlc |-> dlc, files |-> files,
     title |-> title, description |-> description, os |-> os]

TitleKB == <<"U", "p", " ", "(", "K", "B", "4", "5", ")">>

TitlePlain == <<"T", "o", "o", "l">>

DownloadPages ==
    {DownloadPage(FALSE, NotFound, FALSE, NotFound, NotFound, NotFound, NotFound),
     DownloadPage(TRUE, NotFound, TRUE, Found(<<File64>>), Found(TitleKB), Found(<<"d">>), Found(<<"Windows 10">>)),
     DownloadPage(TRUE, Found(DetailsHref("id=1")), FALSE, NotFound, NotFound, NotFound, NotFound),
     DownloadPage(TRUE, Found(DetailsHref("id=1")), TRUE, NotFound, Found(TitleKB), Found(<<"d">>), Found(<<"Windows 10">>)),
     DownloadPage(TRUE, Found(DetailsHref("id=1")), TRUE, Found(<<File64>>), Found(TitleKB), Found(<<"d">>), NotFound),
     DownloadPage(TRUE, Found(DetailsHref("id=1")), TRUE, Found(<<File64>>), Found(TitleKB), Found(<<"d">>), Found(<<"Windows 10">>)),
     DownloadPage(TRUE, Found(DetailsHref("id=1")), TRUE, Found(<<File86, File64>>), Found(TitlePlain), Found(<<"d">>), Found(<<"Windows 10">>)),
     DownloadPage(TRUE, Found(DetailsHref("id=2")), TRUE, Found(<<FilePlain>>), Found(TitlePlain), Found(<<"d">>), Found(<<"Windows 10">>)),
     DownloadPage(TRUE, Found(DetailsHref("id=2")), TRUE, Found(<<>>), Found(TitlePlain), Found(<<"d">>), Found(<<"Windows 10">>))}

\* f"{x:.2f}" of size_bytes / unit, as hundredths; the remainder is taken in
\* 1024ths of the unit, which keeps the arithmetic within 32 bits (the sizes
\* of the model are multiples of that).
Hundredths(size_bytes, unit) ==
    LET whole == size_bytes \div unit
        part == (size_bytes % unit) \div (unit \div 1024)
    IN  whole * 100 + (part * 200 + 1024) \div 2048

convert_bytes_to_human_readable(size_bytes) ==
    IF size_bytes >= GiB
    THEN [t |-> "size", v |-> <<Hundredths(size_bytes, GiB), "GB">>]
    ELSE [t |-> "size", v |-> <<Hundredths(size_bytes, MiB), "MB">>]

RECURSIVE SumSizes(_)
SumSizes(download_details) ==
    IF download_details = <<>> THEN 0
    ELSE DigitsValue(Head(download_details).size.v, 0) + SumSizes(Tail(download_details))

get_update_size(download_details) ==
    IF \E i \in 1..Len(download_details) :
           \/ IsNone(download_details[i].size)
           \/ ~IsNumeric(Strip(download_details[i].size.v))
    THEN PyStr(<<"N/A">>)
    ELSE convert_bytes_to_human_readable(
             SumSizes([i \in 1..Len(download_details) |->
                          [size |-> PyStr(Strip(download_details[i].size.v))]]))

get_version_number(download_details) ==
    IF download_details = <<>> THEN PyNone ELSE download_details[1].version

get_last_updated(download_details) ==
    IF download_details = <<>> THEN PyNone ELSE download_details[1].datePublished

RECURSIVE get_architecture(_)
get_architecture(download_details) ==
    IF download_details = <<>> THEN PyNone
    ELSE LET name == Head(download_details).name
         IN  IF Contains(name, <<"6", "4">>) THEN PyStr(<<"x64">>)
             ELSE IF Contains(name, <<"3", "2">>)
                     \/ (Contains(name, <<"8", "6">>) /\ ~Contains(name, <<"6", "4">>))
                  THEN PyStr(<<"x86">>)
             ELSE get_architecture(Tail(download_details))

\* The run of digits of s that starts at index i.
RECURSIVE DigitRun(_, _)
DigitRun(s, i) ==
    IF i <= Len(s) /\ IsDigit(s[i]) THEN <<s[i]>> \o DigitRun(s, i + 1) ELSE <<>>

\* The digits that follow the first "kb" of a lowercased text that has one.
KbDigits(text) == DigitRun(text, Find(text, <<"k", "b">>) + 2)

RECURSIVE get_kb_number(_)
get_kb_number(download_details) ==
    IF download_details = <<>> THEN PyNone
    ELSE LET file_name == Lower(Head(download_details).name)
         IN  IF Contains(file_name, <<"k", "b">>) THEN PyStr(KbDigits(file_name))
             ELSE get_kb_number(Tail(download_details))

\* get_microsoft_windows_product_update: the list it returns for the page.
get_microsoft_windows_product_update(page) ==
    IF ~page.ok \/ ~page.canonical.present THEN <<>>
    ELSE IF ~page.dlc \/ ~page.files.present THEN <<>>
    ELSE IF ~page.title.present \/ ~page.description.present \/ ~page.os.present THEN <<>>
    ELSE LET files == page.files.v
             title == Lower(page.title.v)
             from_title == IF Contains(title, <<"k", "b">>) THEN PyStr(KbDigits(title)) ELSE PyNone
             kb == IF ~Truthy(from_title) /\ Truthy(get_kb_number(files))
                   THEN get_kb_number(files) ELSE from_title
         IN  << [download_info |-> files,
                 update_size |-> get_update_size(files),
                 version |-> get_version_number(files),
                 last_updated |-> get_last_updated(files),
                 architecture |-> get_architecture(files),
                 title |-> PyStr(page.title.v),
                 kb |-> kb,
                 description |-> PyStr(page.description.v),
                 supported_products |-> PyStr(page.os.v),
                 language |-> PyStr(<<"English">>),
                 update_url |-> PyStr(page.canonical.v)] >>

\* The record get_microsoft_download_center_update builds for one update.
patch_record(update, kb) ==
    LET patch_kb == IF Truthy(update.kb) THEN update.kb ELSE PyStr(kb)
    IN  [kb |-> patch_kb,
         title |-> update.title,
         kb_numbers |-> patch_kb,
         version |-> update.version,
         last_updated |-> update.last_updated,
         classification |-> PyStr(<<"Product Update">>),
         languages |-> update.language,
         superseeds |-> PyStr(NoneText),
         msrc_number |-> PyStr(NoneText),
         msrc_severity |-> PyStr(NoneText),
         products_applicable |-> update.supported_products,
         architecture |-> update.architecture,
         uninstallable |-> PyStr(<<"Yes">>),
         requires_connectivity |-> PyStr(<<"No">>),
         requires_user_input |-> PyStr(<<"No">>),
         requires_restart |-> PyStr(<<"Yes">>),
         update_size |-> update.update_size,
         more_info |-> update.update_url,
         description |-> update.description,
         support_url |-> PyStr(<<"https://support.microsoft.com/help/">> \o patch_kb.v),
         download_urls |->
             [t |-> "json",
              v |-> [i \in 1..Len(update.download_info) |->
                       [name |-> update.download_info[i].name,
                        url |-> update.download_info[i].url,
                        size |-> update.download_info[i].size,
                        version |-> update.download_info[i].version,
                        datePublished |-> update.download_info[i].datePublished,
                        download_link |-> update.download_info[i].url,
                        file_name |-> update.download_info[i].name]]]]

get_microsoft_download_center_update(page, kb) ==
    LET found == get_microsoft_windows_product_update(page)
    IN  [i \in 1..Len(found) |-> patch_record(found[i], kb)]

(***************************************************************************)
(* __main__: one run of the command line.                                  *)
(***************************************************************************)
SearchStrings == {<<>>, <<"K", "B", "4", "5">>}

Paths == {"", "out.json", "update_details.json"}

Absent == [kind |-> "absent", updates |-> <<>>]

OldFile == [kind |-> "old", updates |-> <<>>]

\* json.dump(updates_json, outfile)
JsonFile(updates) == [kind |-> "json", updates |-> updates]

\* No download page scraped yet.
NoPage == DownloadPage(FALSE, NotFound, FALSE, NotFound, NotFound, NotFound, NotFound)

NoFallback ==
    [patch_links |-> <<>>, next |-> 1, update_list |-> <<>>, requested |-> <<>>,
     page |-> NoPage, scraped |-> <<>>]

NoHistory == [catalogCalls |-> 0, patchLinkCalls |-> 0, scrapes |-> 0,
              catalogAfterFallback |-> FALSE, yielded |-> 0, walkErr |-> "",
              emitted |-> <<>>, fetched |-> <<>>]

CliIdle ==
    /\ argv = [n |-> 0, search |-> <<>>, file_path |-> ""]
    /\ fs = [p \in Paths |-> Absent]
    /\ pc = "idle"
    /\ exitCode = -1
    /\ walk = NoWalk
    /\ cat = NewCatalog
    /\ fb = NoFallback
    /\ hist = NoHistory

WUIdle ==
    /\ wu = NewWindowsUpdate
    /\ net = NoRequests
    /\ lastCall = NoCall
    /\ nCalls = 0
    /\ dlFirst = [count |-> 0, raised |-> FALSE, val |-> PyNone]
    /\ dlCached = [called |-> FALSE, val |-> PyNone, posts |-> 0]

\* The path the run writes to.
OutputPath(file_path) == IF file_path = "" THEN "update_details.json" ELSE file_path

\* The process starts with one to three words on its command line; the file
\* it will write to may exist already.
Init ==
    /\ WUIdle
    /\ argv \in {[n |-> 1, search |-> <<>>, file_path |-> ""],
                 [n |-> 2, search |-> <<"K", "B", "4", "5">>, file_path |-> ""]}
               \cup {[n |-> 3, search |-> q, file_path |-> f] :
                        q \in SearchStrings, f \in {"", "out.json"}}
    /\ fs \in {[p \in Paths |-> Absent],
                [[p \in Paths |-> Absent] EXCEPT ![OutputPath(argv.file_path)] = OldFile]}
    /\ pc = "start"
    /\ exitCode = -1
    /\ walk = NoWalk
    /\ cat = NewCatalog
    /\ fb = NoFallback
    /\ hist = NoHistory

\* os.path.exists(file_path) / os.remove(file_path)
KeepExisting(files, file_path) == files
RemoveExisting(files, file_path) ==
    IF files[file_path].kind # "absent" THEN [files EXCEPT ![file_path] = Absent] ELSE files

\* Lines 772-794: the checks of the arguments, the removal of an existing
\* output file, and the call of find_microsoft_catelogue_updates.
Start ==
    /\ pc = "start"
    /\ UNCHANGED <<wuVars, argv, fb>>
    /\ IF argv.n < 3 \/ argv.search = <<>>
       THEN /\ pc' = "exit"
            /\ exitCode' = 1
            /\ UNCHANGED <<fs, walk, cat, hist>>
       ELSE /\ fs' = RemoveExisting(fs, argv.file_path)
            /\ pc' = "catalog"
            /\ walk' = NewWalk(TRUE, "", FALSE)
            /\ cat' = NewCatalog
            /\ hist' = [hist EXCEPT !.catalogCalls = @ + 1,
                                    !.catalogAfterFallback = hist.patchLinkCalls > 0]
            /\ UNCHANGED exitCode

\* The loop of find_microsoft_catelogue_updates asks the generator for the next
\* update: the generator requests a page ...
WalkFetch ==
    /\ pc = "catalog"
    /\ walk.st = "fetch"
    /\ \E resp \in SearchResponses(walk, {AntiForgery}, {Columns}) :
         walk' = FetchPage(walk, resp)
    /\ UNCHANGED <<wuVars, argv, fs, pc, exitCode, cat, fb, hist>>

\* ... yields the next row of the page it is on ...
WalkYield ==
    /\ pc = "catalog"
    /\ walk.st = "rows"
    /\ walk.row < walk.trs
    /\ \E r \in RowKinds : walk' = YieldRow(walk, r)
    /\ UNCHANGED <<wuVars, argv, fs, pc, exitCode, cat, fb, hist>>

\* ... or, after the last row, goes to the next page or ends.
WalkPaginate ==
    /\ pc = "catalog"
    /\ walk.st = "rows"
    /\ walk.row >= walk.trs
    /\ walk' = Paginate(walk)
    /\ UNCHANGED <<wuVars, argv, fs, pc, exitCode, cat, fb, hist>>

\* What the detail endpoint and the download dialog may answer with in a run:
\* the full page, a page without the supersedesInfo container, one whose MSRC
\* number is n/a, one without the KB marker, one without the architecture
\* marker; a dialog without a link or with one link.
CatalogDocs ==
    {FullDoc,
     [FullDoc EXCEPT !.supersedes = Missing],
     [FullDoc EXCEPT !.msrc = Elem(TRUE, << NA >>)],
     [FullDoc EXCEPT !.kb = Missing],
     [FullDoc EXCEPT !.arch = Missing]}

CatalogBodies == {raw \in DownloadBodies : Len(raw.urls) <= 1}

\* The body of the loop for the update yielded: the record is built and
\* appended; an exception leaves the function, which returns None.
BuildRecord ==
    /\ pc = "catalog"
    /\ walk.st = "yielded"
    /\ \E d \in CatalogDocs, raw \in CatalogBodies :
         LET r == update_details(WindowsUpdate(walk.cur), d, raw)
         IN  IF r.raised
             THEN /\ cat' = [NewCatalog EXCEPT !.returned = TRUE, !.raised = TRUE]
                  /\ walk' = NoWalk
                  /\ hist' = [hist EXCEPT !.yielded = walk.yielded, !.walkErr = walk.err,
                                          !.emitted = walk.emitted, !.fetched = walk.fetched]
                  /\ pc' = "returned"
             ELSE /\ cat' = [cat EXCEPT
                               !.updates = Append(@, r.val),
                               !.super_seeds_list = AppendSuperSeeds(@, r.val)]
                  /\ walk' = [walk EXCEPT !.st = "rows"]
                  /\ UNCHANGED <<pc, hist>>
    /\ UNCHANGED <<wuVars, argv, fs, exitCode, fb>>

\* The walk has ended: the records are filtered and returned.
CatalogReturn ==
    /\ pc = "catalog"
    /\ walk.st = "done"
    /\ cat' = IF walk.outcome = "raised"
              THEN [cat EXCEPT !.returned = TRUE, !.raised = TRUE, !.result = PyNone]
              ELSE [cat EXCEPT !.returned = TRUE,
                               !.result = CatalogResult(cat.updates, cat.super_seeds_list)]
    /\ walk' = NoWalk
    /\ hist' = [hist EXCEPT !.yielded = walk.yielded, !.walkErr = walk.err,
                            !.emitted = walk.emitted, !.fetched = walk.fetched]
    /\ pc' = "returned"
    /\ UNCHANGED <<wuVars, argv, fs, exitCode, fb>>

\* `if not updates`
FallbackIfNone(updates) == IsNone(updates)
NeedsFallback(updates) == ~Truthy(updates)

\* get_patch_link(search); without links the run exits with code 1.
GetPatchLink ==
    /\ pc = "returned"
    /\ NeedsFallback(cat.result)
    /\ \E page \in SupportPages :
         LET patch_links == get_patch_link(page)
         IN  /\ fb' = [fb EXCEPT !.patch_links = patch_links,
                                 !.requested = SupportUrlOf(argv.search)]
             /\ IF patch_links = <<>>
                THEN pc' = "exit" /\ exitCode' = 1
                ELSE pc' = "scrape" /\ UNCHANGED exitCode
    /\ hist' = [hist EXCEPT !.patchLinkCalls = @ + 1]
    /\ UNCHANGED <<wuVars, argv, fs, walk, cat>>

\* The body of the loop over patch_links for a link that answers with page:
\* what the scrape returns is added to update_list.
Scrape(f, page, kb) ==
    LET updates_details == get_microsoft_download_center_update(page, kb)
    IN  [f EXCEPT !.next = @ + 1, !.page = page, !.scraped = updates_details,
                  !.update_list = @ \o updates_details]

\* get_microsoft_download_center_update for the next patch link.
DownloadCenterUpdate ==
    /\ pc = "scrape"
    /\ fb.next <= Len(fb.patch_links)
    /\ \E page \in DownloadPages : fb' = Scrape(fb, page, argv.search)
    /\ hist' = [hist EXCEPT !.scrapes = @ + 1]
    /\ UNCHANGED <<wuVars, argv, fs, pc, exitCode, walk, cat>>

\* updates_json as it is written.
updates_json ==
    IF NeedsFallback(cat.result) THEN fb.update_list ELSE cat.result.v

\* The output file is written and the run ends.
WriteFile ==
    /\ \/ pc = "returned" /\ ~NeedsFallback(cat.result)
       \/ pc = "scrape" /\ fb.next > Len(fb.patch_links)
    /\ fs' = [fs EXCEPT ![OutputPath(argv.file_path)] = JsonFile(updates_json)]
    /\ pc' = "done"
    /\ exitCode' = 0
    /\ UNCHANGED <<wuVars, argv, walk, cat, fb, hist>>

Next ==
    \/ Start
    \/ WalkFetch
    \/ WalkYield
    \/ WalkPaginate
    \/ BuildRecord
    \/ CatalogReturn
    \/ GetPatchLink
    \/ DownloadCenterUpdate
    \/ WriteFile

Spec == Init /\ [][Next]_vars

InitWU == WUInit /\ CliIdle

SpecWU == InitWU /\ [][WUNext]_vars

(***************************************************************************)
(* One call of find_updates on its own, its caller taking every update it  *)
(* yields: the flags and the sort column are the caller's choice, and the  *)
(* pages may lack anti-forgery fields or a column of the header row.       *)
(***************************************************************************)
SortColumns == {"", "Title", "Last Updated"}

FieldSets == {AntiForgery, {"__VIEWSTATE", "__EVENTVALIDATION"}, {}}

HeaderSets == {Columns, {"Title"}}

InitWalk ==
    /\ WUIdle
    /\ argv = [n |-> 0, search |-> <<>>, file_path |-> ""]
    /\ fs = [p \in Paths |-> Absent]
    /\ pc = "walk"
    /\ exitCode = -1
    /\ cat = NewCatalog
    /\ fb = NoFallback
    /\ hist = NoHistory
    /\ \E all_updates \in BOOLEAN, sort \in SortColumns, sort_reverse \in BOOLEAN :
         walk = NewWalk(all_updates, sort, sort_reverse)

\* The generator requests a page ...
FindUpdatesFetch ==
    /\ pc = "walk"
    /\ walk.st = "fetch"
    /\ \E resp \in SearchResponses(walk, FieldSets, HeaderSets) :
         walk' = FetchPage(walk, resp)
    /\ UNCHANGED <<wuVars, argv, fs, pc, exitCode, cat, fb, hist>>

\* ... yields the next row of the page to its caller ...
FindUpdatesYield ==
    /\ pc = "walk"
    /\ walk.st = "rows"
    /\ walk.row < walk.trs
    /\ \E r \in RowKinds : walk' = YieldRow(walk, r)
    /\ UNCHANGED <<wuVars, argv, fs, pc, exitCode, cat, fb, hist>>

\* ... is asked for the next update ...
FindUpdatesResume ==
    /\ pc = "walk"
    /\ walk.st = "yielded"
    /\ walk' = [walk EXCEPT !.st = "rows"]
    /\ UNCHANGED <<wuVars, argv, fs, pc, exitCode, cat, fb, hist>>

\* ... and after the last row goes to the next page or ends.
FindUpdatesPaginate ==
    /\ pc = "walk"
    /\ walk.st = "rows"
    /\ walk.row >= walk.trs
    /\ walk' = Paginate(walk)
    /\ UNCHANGED <<wuVars, argv, fs, pc, exitCode, cat, fb, hist>>

WalkNext ==
    \/ FindUpdatesFetch
    \/ FindUpdatesYield
    \/ FindUpdatesResume
    \/ FindUpdatesPaginate

SpecWalk == InitWalk /\ [][WalkNext]_vars

(***************************************************************************)
(* The scrape of one download page on its own: the page has everything the *)
(* scrape looks for, and any of the titles and lists of files below.       *)
(***************************************************************************)
MaxFiles == 2

FileIA64 == File(<<"u", "p", "-", "i", "a", "6", "4">>, PyStr(<<"1", "0", "4", "8", "5", "7", "6">>))

File32 == File(<<"w", "i", "n", "3", "2">>, PyStr(<<"1", "0", "4", "8", "5", "7", "6">>))

FileKbFix == File(<<"k", "b", "f", "i", "x">>, PyStr(<<"1", "0", "4", "8", "5", "7", "6">>))

\* A file for x86 whose name has a KB number.
FileKB7 == File(<<"K", "B", "7", "-", "x", "8", "6">>, PyStr(<<"1", "0", "4", "8", "5", "7", "6">>))

ScrapeFiles == {File64, FileKB7, FilePlain, FileIA64, File32, FileKbFix}

\* A title whose first "kb" has no digit after it and whose second has.
TitleTwoKB == <<"k", "b", "x", " ", "K", "B", "9">>

\* A title with "kb" and no digits at all.
TitleNoDigits == <<"K", "b", " ", "f", "i", "x">>

ScrapeTitles == {TitleKB, TitlePlain, TitleTwoKB, TitleNoDigits}

ScrapePages ==
    {DownloadPage(TRUE, Found(DetailsHref("id=1")), TRUE, Found(files), Found(title),
                  Found(<<"d">>), Found(<<"Windows 10">>)) :
        files \in SeqsUpTo(ScrapeFiles, MaxFiles), title \in ScrapeTitles}

InitScrape ==
    /\ WUIdle
    /\ argv = [n |-> 3, search |-> <<"K", "B", "4", "5">>, file_path |-> ""]
    /\ fs = [p \in Paths |-> Absent]
    /\ pc = "scrape"
    /\ exitCode = -1
    /\ walk = NoWalk
    /\ cat = [NewCatalog EXCEPT !.returned = TRUE]
    /\ hist = [NoHistory EXCEPT !.catalogCalls = 1, !.patchLinkCalls = 1]
    /\ fb = [NoFallback EXCEPT !.patch_links = <<DetailsHref("id=1")>>]

\* get_microsoft_download_center_update for the one patch link.
ScrapeDownloadPage ==
    /\ pc = "scrape"
    /\ fb.next <= Len(fb.patch_links)
    /\ \E page \in ScrapePages : fb' = Scrape(fb, page, argv.search)
    /\ hist' = [hist EXCEPT !.scrapes = @ + 1]
    /\ UNCHANGED <<wuVars, argv, fs, pc, exitCode, walk, cat>>

SpecScrape == InitScrape /\ [][ScrapeDownloadPage]_vars


(***************************************************************************)
(* Properties of one run of the command line (Spec).                       *)
(***************************************************************************)
ValidArgs == argv.n >= 3 /\ argv.search # <<>>

\* The catalog path has returned and line 795 has been decided.
Decided == cat.returned /\ pc \in {"scrape", "exit", "done"}

FallbackAttempted == hist.patchLinkCalls >= 1

OrderOfPaths ==
    /\ hist.patchLinkCalls <= 1
    /\ hist.catalogCalls <= 1
    /\ ~hist.catalogAfterFallback
    /\ FallbackAttempted => cat.returned
    /\ hist.scrapes > 0 => FallbackAttempted

\* C1 as stated: once the catalog path has returned, the fallback is attempted
\* if and only if the walk yielded no update; it is attempted at most once,
\* after the catalog path, and the catalog path never runs after it.
C1_FallbackIffNothingYielded ==
    /\ Decided => (FallbackAttempted <=> hist.yielded = 0)
    /\ OrderOfPaths

\* C1 amended: the fallback is attempted if and only if the catalog path
\* returned no record (None or an empty list), which it does whenever the
\* walk yielded no update; at most once, after the catalog path, and the
\* catalog path never runs after it.
C1_FallbackIffNoRecord ==
    /\ Decided => (FallbackAttempted <=> ~Truthy(cat.result))
    /\ Decided /\ hist.yielded = 0 => FallbackAttempted
    /\ OrderOfPaths

\* The fallback runs although the walk yielded updates.
C1_Witness == pc = "scrape" /\ hist.scrapes >= 1 /\ hist.yielded >= 1

\* The entries of the supersedes lists of the records built.
SupersedesEntries(updates) ==
    UNION {{updates[j].superseeds.v[k] : k \in 1..Len(updates[j].superseeds.v)} :
              j \in {i \in 1..Len(updates) : updates[i].superseeds.t = "list"}}

\* The texts that stand for "no supersedes list" in the records built.
SupersedesTexts(updates) ==
    {updates[j].superseeds.v : j \in {i \in 1..Len(updates) : updates[i].superseeds.t = "str"}}

Returned(updates) == IF updates.t = "records" THEN {updates.v[i] : i \in 1..Len(updates.v)} ELSE {}

FixedKeys ==
    {"kb", "title", "version", "last_updated", "classification", "languages",
     "superseeds", "msrc_number", "msrc_severity", "products_applicable",
     "architecture", "uninstallable", "requires_connectivity",
     "requires_user_input", "requires_restart", "update_size", "more_info",
     "description", "support_url", "download_urls"}

IdKeys == {"update_id", "kb_numbers"}

\* The records of the output file once it is written.
Output == fs[OutputPath(argv.file_path)].updates

\* C3: every record of the output has the fixed keys, update_id and/or
\* kb_numbers, and no other key.
C3_OneFieldSet ==
    pc = "done" =>
        \A i \in 1..Len(Output) :
            /\ FixedKeys \subseteq DOMAIN Output[i]
            /\ DOMAIN Output[i] \subseteq FixedKeys \cup IdKeys
            /\ DOMAIN Output[i] \cap IdKeys # {}

\* C4: no field of a record of the output is None.
C4_NoNullField ==
    pc = "done" =>
        \A i \in 1..Len(Output) : \A k \in DOMAIN Output[i] : ~IsNone(Output[i][k])

\* C5 as stated: a run with both arguments and a search string ends with the
\* output file written.
C5_AlwaysWritten ==
    ValidArgs /\ pc \in {"done", "exit"} => fs[OutputPath(argv.file_path)].kind = "json"

\* C5 amended: a run with both arguments and a search string first removes a
\* file at the given path; it ends either with the records written to the
\* output path and exit code 0, or, when the catalog path returned no record
\* and get_patch_link no link, with exit code 1 and nothing written.
C5_WrittenUnlessNoLink ==
    ValidArgs =>
        /\ pc # "start" /\ argv.file_path # "" /\ pc # "done" => fs[argv.file_path].kind = "absent"
        /\ pc = "done" =>
              /\ exitCode = 0
              /\ fs[OutputPath(argv.file_path)] = JsonFile(updates_json)
        /\ pc = "exit" =>
              /\ exitCode = 1
              /\ ~Truthy(cat.result)
              /\ hist.patchLinkCalls = 1 /\ fb.patch_links = <<>> /\ hist.scrapes = 0
              /\ fs[OutputPath(argv.file_path)].kind # "json"
        /\ pc \notin {"done", "exit"} => exitCode = -1

\* A run that ends without an output file, an older one having been removed.
C5_Witness ==
    ValidArgs /\ pc = "exit" /\ argv.file_path = "out.json" /\ hist.patchLinkCalls = 1

\* C8 as stated: a search page without the results container makes the walk
\* end with an exception raised to its caller.
C8_NotFoundSurfaced == walk.err = "NotFound" => walk.outcome = "raised"

\* C8 amended: the ValueError for the missing container is caught by
\* find_updates itself; the generator ends as it does after its last update, no
\* walk ever raises to its caller, and the catalog path returns what it has
\* built from the updates yielded before.
C8_NotFoundCaught ==
    /\ walk.outcome # "raised"
    /\ walk.err = "NotFound" => walk.st = "done" /\ walk.outcome = "exhausted"
    /\ cat.returned /\ hist.walkErr = "NotFound" =>
          /\ ~cat.raised
          /\ cat.result = CatalogResult(cat.updates, cat.super_seeds_list)

\* The first page of a walk has no results container.
C8_Witness == walk.err = "NotFound" /\ walk.requests = 1 /\ pc = "catalog"

\* C9: a walk that caught a fetch or parse failure has delivered no update.
C9_FailureMeansEmpty == walk.st = "done" /\ walk.err = "Error" => walk.yielded = 0

(***************************************************************************)
(* Properties of one WindowsUpdate object (SpecWU).                        *)
(***************************************************************************)
PropertyOf(op, d) ==
    CASE op = "architecture" -> architecture(d)
      [] op = "languages" -> languages(d)
      [] op = "superseeds" -> superseeds(d)
      [] op = "descriptions" -> descriptions(d)
      [] op = "is_installable" -> is_installable(d)
      [] op = "requires_connectivity" -> requires_connectivity(d)
      [] op = "requires_user_input" -> requires_user_input(d)
      [] op = "requires_restart" -> requires_restart(d)
      [] op = "kb_numbers" -> kb_numbers(d)
      [] op = "more_information" -> more_information(d)
      [] op = "msrc_number" -> msrc_number(d)
      [] op = "msrc_severity" -> msrc_severity(d)
      [] op = "support_url" -> support_url(d)

PropertyOps ==
    {"architecture", "languages", "superseeds", "descriptions", "is_installable",
     "requires_connectivity", "requires_user_input", "requires_restart",
     "kb_numbers", "more_information", "msrc_number", "msrc_severity", "support_url"}

ScalarField(op) ==
    CASE op = "architecture" -> "arch"
      [] op = "languages" -> "lang"
      [] op = "descriptions" -> "desc"
      [] op = "support_url" -> "supportUrl"
      [] op = "more_information" -> "moreInfo"
      [] op = "msrc_number" -> "msrc"
      [] op = "msrc_severity" -> "severity"
      [] op = "requires_connectivity" -> "connectivity"
      [] op = "requires_user_input" -> "userInput"
      [] op = "requires_restart" -> "reboot"

ScalarOps ==
    {"architecture", "languages", "descriptions", "support_url", "more_information",
     "msrc_number", "msrc_severity", "requires_connectivity", "requires_user_input",
     "requires_restart"}

\* C10: an access to a scalar field whose marker element is missing from the
\* page does not raise and returns None.
C10_MissingMarkerNeverRaises ==
    lastCall.op \in ScalarOps /\ ~wu["_details"].doc[ScalarField(lastCall.op)].m =>
        ~lastCall.raised /\ IsNone(lastCall.val)


(***************************************************************************)
(* kb_numbers of one WindowsUpdate object (SpecWU).                        *)
(***************************************************************************)
\* The KB element of the cached page.
KbElem == wu["_details"].doc.kb

\* "n/a" in any letter case, written out letter by letter.
IsNA(s) == Len(s) = 3 /\ s[1] \in {"n", "N"} /\ s[2] = "/" /\ s[3] \in {"a", "A"}

\* The integers of the siblings in sibs whose place is in keep, in order.
IntsOf(sibs, keep) ==
    LET kept == SelectSeq([i \in 1..Len(sibs) |-> <<i, Strip(sibs[i])>>],
                          LAMBDA p : p[1] \in keep)
    IN  [i \in 1..Len(kept) |-> DigitsValue(kept[i][2], 0)]

AllSiblings == 1..Len(KbElem.sibs)

NotNA == {i \in AllSiblings : ~IsNA(Strip(KbElem.sibs[i]))}

AfterRows == walk.st = "rows" /\ walk.row >= walk.trs

\* The next step of the walk sends the request of a further page.
PageRequestPending == walk.st = "fetch" /\ walk.pages >= 1

\* The anti-forgery fields of the page fetched last, as that page's
\* request number stamps them.
FromLastPage(form) ==
    DOMAIN form \subseteq AntiForgery /\ \A f \in DOMAIN form : form[f] = walk.requests

NoRequest == walk'.requests = walk.requests /\ walk'.posts = walk.posts /\ walk'.log = walk.log

OnePost(data) ==
    /\ walk'.requests = walk.requests + 1
    /\ walk'.posts = walk.posts + 1
    /\ walk'.log = Append(walk.log, data)

\* What the steps of a walk do about the request of a further page.
PaginationSteps ==
    /\ AfterRows =>
        /\ NoRequest
        /\ walk'.emitted = walk.emitted
        /\ IF ~walk.nextPage /\ walk.all_updates
           THEN /\ walk'.st = "fetch"
                /\ walk'.data.target = NextPageTarget
                /\ walk'.data.form = walk.form /\ FromLastPage(walk.form)
           ELSE walk'.st = "done"
    /\ PageRequestPending =>
        /\ OnePost(walk.data)
        /\ walk'.st \in {"rows", "done"}
        /\ walk'.emitted = walk.emitted
        /\ walk'.st = "rows" => walk'.row = 1 /\ walk'.pages = walk.pages + 1
    /\ walk.st \in {"rows", "yielded"} => NoRequest

EndsWithoutControl ==
    /\ AfterRows /\ ~walk.nextPage => walk'.st = "done"
    /\ ~walk.asked.all_updates => walk'.pages <= 1

EndsWithControl ==
    /\ AfterRows => (walk'.st = "done" <=> (walk.nextPage \/ ~walk.all_updates))
    /\ AfterRows /\ walk'.st = "done" => walk'.err = "" /\ NoRequest
    /\ ~walk.asked.all_updates => walk'.pages <= 1
    /\ walk'.st = "done" /\ walk'.err = "" => walk'.nextPage \/ ~walk'.asked.all_updates

SortPostsAsked == IF walk.asked.sort = "" THEN 0 ELSE IF walk.asked.sort_reverse THEN 2 ELSE 1

\* The requests sent so far that click a column header.
SortPosts == {i \in 1..Len(walk.log) : walk.log[i].target \in {EventTarget(c) : c \in Columns}}

\* C14: with a sort column, once a row has been emitted or the walk has ended
\* without an exception, the requests are the search request, then one sort
\* POST (two with sort_reverse) for the column, each with the anti-forgery
\* fields of the page before it, then next-page POSTs only, none without
\* all_updates; every row emitted is of the page the last sort POST returned or
\* of a later page, in order.
C14_SortBeforeRows ==
    walk.asked.sort # "" /\ pc = "walk" =>
        /\ \A i \in SortPosts :
              /\ i \in 2..(1 + SortPostsAsked)
              /\ walk.log[i].target = EventTarget(walk.asked.sort)
              /\ \A f \in DOMAIN walk.log[i].form : walk.log[i].form[f] = i - 1
        /\ \A k \in 1..Len(walk.emitted) : walk.emitted[k][1] >= 1 + SortPostsAsked
        /\ walk.yielded >= 1 \/ (walk.st = "done" /\ walk.err = "") =>
              /\ walk.log[1] = NoData
              /\ SortPosts = 2..(1 + SortPostsAsked)
              /\ \A i \in (2 + SortPostsAsked)..Len(walk.log) :
                    walk.log[i].target = NextPageTarget
              /\ ~walk.asked.all_updates => Len(walk.log) = 1 + SortPostsAsked
        /\ \A k \in 1..(Len(walk.emitted) - 1) :
              \/ walk.emitted[k][1] < walk.emitted[k + 1][1]
              \/ /\ walk.emitted[k][1] = walk.emitted[k + 1][1]
                 /\ walk.emitted[k][2] < walk.emitted[k + 1][2]

\* Sorted in reverse: the first row comes after the search and two sort POSTs.
C14_Witness ==
    /\ walk.asked.sort = "Title" /\ walk.asked.sort_reverse
    /\ walk.yielded >= 1 /\ walk.posts = 2 /\ walk.requests = 3


(***************************************************************************)
(* superseeds of one WindowsUpdate object (SpecWU).                        *)
(***************************************************************************)
\* The supersedesInfo container of the cached page and its stripped text.
SupersedesElem == wu["_details"].doc.supersedes

SupersedesText == Strip(IF SupersedesElem.sibs = <<>> THEN <<>> ELSE SupersedesElem.sibs[1])

\* The lines of a text, cut at every newline.
RECURSIVE LinesOf(_)
LinesOf(s) ==
    IF \A i \in 1..Len(s) : s[i] # "\n" THEN <<s>>
    ELSE LET i == CHOOSE k \in 1..Len(s) : s[k] = "\n" /\ \A j \in 1..(k - 1) : s[j] # "\n"
         IN  <<SubSeq(s, 1, i - 1)>> \o LinesOf(SubSeq(s, i + 1, Len(s)))

\* A line without its carriage returns and surrounding whitespace.
Entry(x) == Strip(SelectSeq(x, LAMBDA c : c # "\r"))

\* One entry per non-empty line of a text, in order.
Entries(text) ==
    LET lines == LinesOf(text)
    IN  SelectSeq([i \in 1..Len(lines) |-> Entry(lines[i])], LAMBDA x : x # <<>>)

\* The value of superseeds for a container text whose lines are cut in text.
SupersedesOf(text) ==
    IF ~SupersedesElem.m THEN PyStr(NoneText)
    ELSE IF SupersedesText = <<>> THEN PyStr(<<>>)
    ELSE PyList(Entries(text))

\* C15 as stated: superseeds is "None" without the container, the empty text
\* for an empty container, and otherwise one entry per non-empty line of the
\* container text, in order, without carriage returns and surrounding
\* whitespace.
C15_OneEntryPerLine ==
    lastCall.op = "superseeds" =>
        ~lastCall.raised /\ lastCall.val = SupersedesOf(SupersedesText)


(***************************************************************************)
(* Properties of the scrape of one download page (SpecScrape).             *)
(***************************************************************************)
\* The record made from the page scraped, its title and its files.
Scraped == fb.scraped /= <<>>

ScrapedRecord == fb.scraped[1]

ScrapedTitle == fb.page.title.v

ScrapedFiles == fb.page.files.v

\* The runs of digits that follow a "kb" somewhere in the lowercased text.
KbRuns(text) ==
    LET low == Lower(text)
    IN  {DigitRun(low, i + 2) :
            i \in {k \in 1..(Len(low) - 1) : low[k] = "k" /\ low[k + 1] = "b"}} \ {<<>>}

FileKbRuns == UNION {KbRuns(ScrapedFiles[i].name) : i \in 1..Len(ScrapedFiles)}

\* C16: the kb of a fallback record is a digit run after "kb" in the title if
\* the title has one; else a digit run after "kb" in a file name if some file
\* name has one; else the search KB of the caller.
C16_KbFromTitleFilesSearch ==
    Scraped =>
        IF KbRuns(ScrapedTitle) # {} THEN ScrapedRecord.kb.v \in KbRuns(ScrapedTitle)
        ELSE IF FileKbRuns # {} THEN ScrapedRecord.kb.v \in FileKbRuns
        ELSE ScrapedRecord.kb = PyStr(argv.search)

SomeFileName(part) == \E i \in 1..Len(ScrapedFiles) : Contains(ScrapedFiles[i].name, part)

\* C17: the architecture of a fallback record is x64 when some file name
\* contains "64", whatever the order of the files; otherwise x86 when some
\* file name contains "32" or "86"; otherwise it is unset.
C17_ArchitectureOverAllFiles ==
    Scraped =>
        ScrapedRecord.architecture =
            IF SomeFileName(<<"6", "4">>) THEN PyStr(<<"x64">>)
            ELSE IF SomeFileName(<<"3", "2">>) \/ SomeFileName(<<"8", "6">>) THEN PyStr(<<"x86">>)
            ELSE PyNone


(***************************************************************************)
(* Order of the updates of the catalog path (Spec).                        *)
(***************************************************************************)
\* The rows emitted and the pages of rows fetched by the walk of this run, as
\* <<request, row>> and <<request, number of data rows>>.
Emitted == IF pc = "catalog" THEN walk.emitted ELSE hist.emitted

Fetched == IF pc = "catalog" THEN walk.fetched ELSE hist.fetched

\* Row a comes before row b: on an earlier page, or earlier on the same page.
Before(a, b) == a[1] < b[1] \/ (a[1] = b[1] /\ a[2] < b[2])

InEmissionOrder == \A k \in 1..(Len(Emitted) - 1) : Before(Emitted[k], Emitted[k + 1])

\* The rows of the page of request p that have been emitted.
RowsOf(p) == {Emitted[k][2] : k \in {i \in 1..Len(Emitted) : Emitted[i][1] = p}}

EmittedIds == [k \in 1..Len(Emitted) |-> PyStr(RowId(Emitted[k][1], Emitted[k][2]))]

IdsOf(records) == [i \in 1..Len(records) |-> records[i].update_id]

ReturnedRecords == IF cat.result.t = "records" THEN cat.result.v ELSE <<>>

\* a is b with some elements left out.
RECURSIVE IsSubsequence(_, _)
IsSubsequence(a, b) ==
    IF a = <<>> THEN TRUE
    ELSE IF b = <<>> THEN FALSE
    ELSE IF Head(a) = Head(b) THEN IsSubsequence(Tail(a), Tail(b))
    ELSE IsSubsequence(a, Tail(b))

\* C18 as stated: when the catalog path has returned, every data row of every
\* page fetched has been emitted exactly once, in row order and fetch order,
\* and the records returned are a subsequence of the rows emitted.
C18_EveryRowEmitted ==
    cat.returned =>
        /\ \A k \in 1..Len(Fetched) : RowsOf(Fetched[k][1]) = 1..Fetched[k][2]
        /\ InEmissionOrder
        /\ IsSubsequence(IdsOf(ReturnedRecords), EmittedIds)

\* The page of rows fetched last has been walked to its end without a failure.
WalkedToEnd ==
    IF pc = "catalog" THEN walk.st = "done" /\ walk.err = ""
    ELSE hist.walkErr = "" /\ ~cat.raised

\* C18 amended: rows are emitted in row order within a page and in fetch order
\* across pages, each at most once, only data rows of pages fetched and on
\* every page from the first data row on without a gap; every page before the
\* last is emitted whole, and the last too unless a row, a request or the
\* build of a record failed; the records built are the rows emitted, in
\* order, and the records returned are a subsequence of them.
C18_RowsInOrderUntilFailure ==
    /\ InEmissionOrder
    /\ \A k \in 1..Len(Emitted) : \E j \in 1..Len(Fetched) : Fetched[j][1] = Emitted[k][1]
    /\ \A k \in 1..Len(Fetched) :
          /\ \E n \in 0..Fetched[k][2] : RowsOf(Fetched[k][1]) = 1..n
          /\ k < Len(Fetched) \/ WalkedToEnd => RowsOf(Fetched[k][1]) = 1..Fetched[k][2]
    /\ pc = "catalog" =>
          IdsOf(cat.updates) =
              IF walk.st = "yielded" THEN SubSeq(EmittedIds, 1, Len(EmittedIds) - 1) ELSE EmittedIds
    /\ cat.returned => IsSubsequence(IdsOf(ReturnedRecords), EmittedIds)

\* Two rows of one page were emitted and the later one alone is returned.
C18_Witness ==
    /\ cat.returned /\ Len(Emitted) = 2 /\ Emitted[1][1] = Emitted[2][1]
    /\ IdsOf(ReturnedRecords) = <<EmittedIds[2]>>

=============================================================================
